---- MODULE Spec2Model ----
(***************************************************************************)
(* A model of the Strike wallet adapter (lnbits/wallets/strike.py) and of  *)
(* the order-chat websocket endpoint (lnbits/extensions/diagonalley/       *)
(* views.py) together with the room notifier the endpoint drives.          *)
(*                                                                         *)
(* Three specifications share the module, one per subsystem:               *)
(*   SpecWallet    the five request/response operations of the adapter     *)
(*   SpecStream    the paid-invoice stream and its queue                   *)
(*   SpecNotifier  the websocket endpoint, one handler task per connection *)
(***************************************************************************)
EXTENDS Naturals, Integers, Sequences, FiniteSets, TLC

VARIABLES
    call,           \* wallet: the last adapter call, its inputs and its outcome
    queue,          \* stream: self.queue, the asyncio.Queue of the running stream
    running,        \* stream: settings.lnbits_running
    spc,            \* stream: where the generator / its consumer stands
    yielded,        \* stream: the ids the generator has yielded, in order
    pushed,         \* stream: the ids producers have put into self.queue, in order
    pushedAtClear,  \* stream: the value of pushed when the running flag was cleared
    starts,         \* stream: how many times the stream has been started
    members,        \* notifier: room id -> set of connections
    pc,             \* notifier: where each connection's handler task stands
    inq,            \* notifier: frames the client sent that receive_text has not returned yet
    data,           \* notifier: the handler's local `data` (the frame being forwarded)
    snap,           \* notifier: the member snapshot of the handler's current/last notify
    todo,           \* notifier: snapshot members the current notify has still to send to
    failed,         \* notifier: snapshot members whose send raised in the current/last notify
    inbox,          \* notifier: what each connection's client has received
    nsent,          \* notifier: number of frames clients have sent so far
    rejoined        \* notifier: connections whose handler re-ran connect after drifting

walletVars == <<call>>
streamVars == <<queue, running, spc, yielded, pushed, pushedAtClear, starts>>
notifierVars == <<members, pc, inq, data, snap, todo, failed, inbox, nsent, rejoined>>
vars == <<call, queue, running, spc, yielded, pushed, pushedAtClear, starts,
          members, pc, inq, data, snap, todo, failed, inbox, nsent, rejoined>>

(***************************************************************************)
(*                         WALLET ADAPTER                                  *)
(***************************************************************************)

\* self.supported_currencies; __init__ refuses any other settlement currency.
supported_currencies == {"BTC", "USD", "EUR", "USDT", "GBP"}

\* settings.strike_currency or 'BTC'; after __init__ it is a supported currency.
current_currency(cfg) == cfg

rate_currency(cfg) == IF current_currency(cfg) # "USDT" THEN current_currency(cfg) ELSE "USD"

----
\* What the provider can answer to one HTTP request.
\*   net   FALSE: the request itself raises (connect error, timeout)
\*   code  the HTTP status code
\*   json  FALSE: r.json() raises (the body is not JSON)
\*   obj   the decoded body, a JSON object as a record
NoBody == [none |-> "none"]

Resp(net, code, json, obj) == [net |-> net, code |-> code, json |-> json, obj |-> obj]

TransportFailure == Resp(FALSE, 0, FALSE, NoBody)

HttpCodes == {200, 404, 500}

\* httpx.Response.is_error
is_error(r) == r.code >= 400

HasKey(obj, k) == k \in DOMAIN obj

\* The state strings a provider may send: the invoice vocabulary, the payment
\* vocabulary, and one outside both.
StateStrings == {"UNPAID", "PENDING", "PAID", "CANCELLED", "COMPLETED", "FAILED", "EXPIRED"}

StateBodies == {[state |-> s] : s \in StateStrings} \cup {[other |-> "x"]}

StateResponses ==
    {TransportFailure}
    \cup {Resp(TRUE, c, FALSE, NoBody) : c \in HttpCodes}
    \cup {Resp(TRUE, c, TRUE, b) : c \in HttpCodes, b \in StateBodies}

----
\* Outcomes of a call: a returned value or an exception leaving the method.
Raise(exc) == [tag |-> "raise", exc |-> exc]

StatusResponse(error_message, balance_msat) ==
    [tag |-> "return", type |-> "StatusResponse",
     error_message |-> error_message, balance_msat |-> balance_msat]

InvoiceResponse(ok, checking_id, payment_request, error_message) ==
    [tag |-> "return", type |-> "InvoiceResponse", ok |-> ok, checking_id |-> checking_id,
     payment_request |-> payment_request, error_message |-> error_message]

PaymentResponse(ok, checking_id, fee_msat, preimage, error_message) ==
    [tag |-> "return", type |-> "PaymentResponse", ok |-> ok, checking_id |-> checking_id,
     fee_msat |-> fee_msat, preimage |-> preimage, error_message |-> error_message]

\* PaymentStatus(paid), paid one of True, False, None.
PaymentStatus(paid) == [tag |-> "return", type |-> "PaymentStatus", paid |-> paid]

\* PaymentPendingStatus() is PaymentStatus with paid = None.
PaymentPendingStatus == PaymentStatus("None")

----
\* A faulty variant of the table below: an unpaid invoice reported as failed.
invoice_statuses_mut == [UNPAID |-> "False", PENDING |-> "None", PAID |-> "True", CANCELLED |-> "False"]

\* get_invoice_status: the statuses table.
invoice_statuses == [UNPAID |-> "None", PENDING |-> "None", PAID |-> "True", CANCELLED |-> "False"]

\* get_invoice_status(checking_id), given the provider's answer r.
get_invoice_status(r) ==
    IF ~r.net THEN PaymentPendingStatus                       \* client.get raises: except Exception
    ELSE IF is_error(r) THEN PaymentPendingStatus             \* if r.is_error
    ELSE IF ~r.json THEN PaymentPendingStatus                 \* r.json() raises
    ELSE IF ~HasKey(r.obj, "state") THEN PaymentPendingStatus \* data["state"]: KeyError
    ELSE IF ~HasKey(invoice_statuses, r.obj.state)
         THEN PaymentPendingStatus                            \* statuses[...]: KeyError
    ELSE PaymentStatus(invoice_statuses[r.obj.state])

\* get_payment_status: the statuses table.
payment_statuses == [PENDING |-> "None", COMPLETED |-> "True", FAILED |-> "False"]

\* Attribute access on the value r.json() returns. A decoded JSON object is a
\* dict, and a dict has no attribute `state`: data.state raises AttributeError.
DictHasAttr(obj, name) == FALSE

\* get_payment_status(checking_id), given the provider's answer r.
get_payment_status(r) ==
    IF ~r.net THEN PaymentStatus("None")                      \* client.get raises
    ELSE IF is_error(r) THEN PaymentPendingStatus             \* if r.is_error
    ELSE IF ~r.json THEN PaymentStatus("None")                \* r.json() raises
    ELSE IF ~DictHasAttr(r.obj, "state") THEN PaymentStatus("None")  \* data.state: AttributeError
    ELSE IF ~HasKey(payment_statuses, r.obj.state) THEN PaymentStatus("None")
    ELSE PaymentStatus(payment_statuses[r.obj.state])

----
\* The rate-conversion collaborator (lnbits.utils.exchange_rates): it answers
\* with a rate or it raises.
RateOutcomes == {[ok |-> FALSE, sats_per_unit |-> 0], [ok |-> TRUE, sats_per_unit |-> 3]}

\* A computed value or the exception the computation raised.
Val(v) == [exc |-> "None", val |-> v]

Exc(e) == [exc |-> e, val |-> 0]

\* float(x) of a provider amount; it raises ValueError on a non-numeric string.
float(amt) == IF amt.numeric THEN Val(amt.n) ELSE Exc("ValueError")

\* _get_btc_amount(amount). Provider BTC amounts are written here in units of
\* 1e-8 BTC, so int(amount * 100_000_000) is the number of units.
get_btc_amount(cfg, amount, rate) ==
    IF rate_currency(cfg) = "BTC" THEN Val(amount)
    ELSE IF rate.ok THEN Val(amount * rate.sats_per_unit)     \* fiat_amount_as_satoshis
    ELSE Exc("RateError")

\* The message taken from the provider's error body.
get_error_message(r) == "provider error"

\* except httpx.HTTPStatusError as err: the logger line formats
\* err.response.json(), which raises when the error body is not JSON; an
\* exception raised inside a handler leaves the method.
except_HTTPStatusError(r) ==
    IF ~r.json THEN Raise("JSONDecodeError")
    ELSE InvoiceResponse("False", "None", "None", get_error_message(r))

\* except Exception as exc
except_Exception == InvoiceResponse("False", "None", "None", "Unable to connect")

----
\* GET /balances answers a JSON list of wallets; the decoded list is the field
\* `list` of the body.
Amount(n, numeric) == [n |-> n, numeric |-> numeric]

BalanceBodies ==
    { [list |-> <<>>],
      [list |-> <<[currency |-> "BTC", total |-> Amount(2, TRUE)]>>],
      [list |-> <<[currency |-> "EUR", total |-> Amount(1, TRUE)],
                  [currency |-> "USD", total |-> Amount(5, TRUE)]>>],
      [list |-> <<[currency |-> "BTC", total |-> Amount(0, FALSE)]>>],
      [list |-> <<[other |-> "x"]>>],
      [message |-> "maintenance"] }

BalanceResponses ==
    {TransportFailure}
    \cup {Resp(TRUE, c, FALSE, NoBody) : c \in HttpCodes}
    \cup {Resp(TRUE, c, TRUE, b) : c \in HttpCodes, b \in BalanceBodies}

\* next((wallet["total"] for wallet in data if wallet["currency"] == cur), None)
RECURSIVE find_balance(_, _, _)
find_balance(wallets, i, currency) ==
    IF i > Len(wallets) THEN [exc |-> "None", found |-> FALSE]
    ELSE IF ~HasKey(wallets[i], "currency") THEN [exc |-> "KeyError", found |-> FALSE]
    ELSE IF wallets[i].currency # currency THEN find_balance(wallets, i + 1, currency)
    ELSE IF ~HasKey(wallets[i], "total") THEN [exc |-> "KeyError", found |-> FALSE]
    ELSE [exc |-> "None", found |-> TRUE, total |-> wallets[i].total]

\* status()
status(cfg, r, rate) ==
    IF ~r.net THEN except_Exception                           \* client.get raises
    ELSE IF is_error(r) THEN except_HTTPStatusError(r)        \* r.raise_for_status()
    ELSE IF ~r.json THEN except_Exception                     \* r.json() raises
    ELSE IF ~HasKey(r.obj, "list") THEN except_Exception      \* wallet["currency"] on a key
    ELSE LET b == find_balance(r.obj.list, 1, current_currency(cfg)) IN
         IF b.exc # "None" THEN except_Exception
         ELSE IF ~b.found THEN StatusResponse("No BTC balance", 0)
         ELSE LET f == float(b.total) IN
              IF f.exc # "None" THEN except_Exception
              ELSE LET btc_balance == get_btc_amount(cfg, f.val, rate) IN
                   IF btc_balance.exc # "None" THEN except_Exception
                   ELSE StatusResponse("None", btc_balance.val * 1000)

----
\* A response set for an endpoint whose good body is `good`.
ResponsesWith(good) ==
    {TransportFailure}
    \cup {Resp(TRUE, c, FALSE, NoBody) : c \in HttpCodes}
    \cup {Resp(TRUE, c, TRUE, b) : c \in HttpCodes, b \in {good, [other |-> "x"]}}

InvoiceResponses == ResponsesWith([invoiceId |-> "abc"])

QuoteResponses == ResponsesWith([lnInvoice |-> "lnbc1"])

\* The body of create_invoice's try block.
create_invoice_try(r, r1) ==
    IF ~r.net THEN except_Exception                           \* client.post raises
    ELSE IF is_error(r) THEN except_HTTPStatusError(r)        \* r.raise_for_status()
    ELSE IF ~r.json THEN except_Exception                     \* r.json() raises
    ELSE IF ~HasKey(r.obj, "invoiceId") THEN except_Exception \* KeyError
    ELSE IF ~r1.net THEN except_Exception
    ELSE IF is_error(r1) THEN except_HTTPStatusError(r1)      \* r1.raise_for_status()
    ELSE IF ~r1.json THEN except_Exception
    ELSE IF ~HasKey(r1.obj, "lnInvoice") THEN except_Exception
    ELSE InvoiceResponse("True", r.obj.invoiceId, r1.obj.lnInvoice, "None")

\* create_invoice(amount, memo, description_hash): the payload, and with it the
\* call of satoshis_amount_as_fiat, is built before the try block is entered.
create_invoice(cfg, amount, rate, r, r1) ==
    IF current_currency(cfg) # "BTC" /\ ~rate.ok THEN Raise("RateError")
    ELSE create_invoice_try(r, r1)

PaymentQuoteResponses == ResponsesWith([paymentQuoteId |-> "q1"])

ExecuteBodies ==
    { [paymentId |-> "pay1", totalFee |-> [amount |-> Amount(1, TRUE)]],
      [paymentId |-> "pay1", totalFee |-> [amount |-> Amount(0, FALSE)]],
      [paymentId |-> "pay1"],
      [other |-> "x"] }

ExecuteResponses ==
    {TransportFailure}
    \cup {Resp(TRUE, c, FALSE, NoBody) : c \in HttpCodes}
    \cup {Resp(TRUE, c, TRUE, b) : c \in HttpCodes, b \in ExecuteBodies}

\* pay_invoice(bolt11, fee_limit_msat)
pay_invoice(cfg, rate, r, r1) ==
    IF ~r.net THEN except_Exception                           \* client.post raises
    ELSE IF is_error(r) THEN except_HTTPStatusError(r)        \* r.raise_for_status()
    ELSE IF ~r.json THEN except_Exception                     \* r.json() raises
    ELSE IF ~HasKey(r.obj, "paymentQuoteId") THEN except_Exception
    ELSE IF ~r1.net THEN except_Exception                     \* client.patch raises
    ELSE IF is_error(r1) THEN except_HTTPStatusError(r1)      \* r1.raise_for_status()
    ELSE IF ~r1.json THEN except_Exception
    ELSE IF ~HasKey(r1.obj, "paymentId") THEN except_Exception
    ELSE IF ~HasKey(r1.obj, "totalFee") THEN except_Exception
    ELSE LET f == float(r1.obj.totalFee.amount) IN
         IF f.exc # "None" THEN except_Exception
         ELSE LET fee == get_btc_amount(cfg, f.val, rate) IN
              IF fee.exc # "None" THEN except_Exception
              ELSE PaymentResponse("True", r1.obj.paymentId, fee.val * 1000, "None", "None")

----
\* One adapter call: its operation, its inputs and its outcome.
Call(op, cfg, amount, rate, r, r1, result) ==
    [op |-> op, cfg |-> cfg, amount |-> amount, rate |-> rate, r |-> r, r1 |-> r1,
     result |-> result]

NoRate == [ok |-> TRUE, sats_per_unit |-> 0]

Amounts == {1000}

NoResult == [tag |-> "none"]

InitWallet == call = Call("none", "BTC", 0, NoRate, TransportFailure, TransportFailure, NoResult)

\* The adapter keeps no state from one call to the next, so a behaviour is one
\* call on one configuration and one set of provider answers.
NoCallYet == call.op = "none"

CallStatus ==
    /\ NoCallYet
    /\ \E cfg \in supported_currencies, r \in BalanceResponses, rate \in RateOutcomes :
          call' = Call("status", cfg, 0, rate, r, TransportFailure, status(cfg, r, rate))
    /\ UNCHANGED <<streamVars, notifierVars>>

CallCreateInvoice ==
    /\ NoCallYet
    /\ \E cfg \in supported_currencies, amount \in Amounts, rate \in RateOutcomes,
          r \in InvoiceResponses, r1 \in QuoteResponses :
          call' = Call("create_invoice", cfg, amount, rate, r, r1,
                       create_invoice(cfg, amount, rate, r, r1))
    /\ UNCHANGED <<streamVars, notifierVars>>

CallPayInvoice ==
    /\ NoCallYet
    /\ \E cfg \in supported_currencies, rate \in RateOutcomes,
          r \in PaymentQuoteResponses, r1 \in ExecuteResponses :
          call' = Call("pay_invoice", cfg, 0, rate, r, r1, pay_invoice(cfg, rate, r, r1))
    /\ UNCHANGED <<streamVars, notifierVars>>

CallGetInvoiceStatus ==
    /\ NoCallYet
    /\ \E cfg \in supported_currencies, r \in StateResponses :
          call' = Call("get_invoice_status", cfg, 0, NoRate, r, TransportFailure,
                       get_invoice_status(r))
    /\ UNCHANGED <<streamVars, notifierVars>>

CallGetPaymentStatus ==
    /\ NoCallYet
    /\ \E cfg \in supported_currencies, r \in StateResponses :
          call' = Call("get_payment_status", cfg, 0, NoRate, r, TransportFailure,
                       get_payment_status(r))
    /\ UNCHANGED <<streamVars, notifierVars>>

NextWallet ==
    \/ CallStatus
    \/ CallCreateInvoice
    \/ CallPayInvoice
    \/ CallGetInvoiceStatus
    \/ CallGetPaymentStatus

(***************************************************************************)
(*                       PAID-INVOICE STREAM                               *)
(* paid_invoices_stream is an async generator driven by one consumer.      *)
(* Producers are external code that puts a checking id into self.queue.    *)
(*   spc = "notstarted"  the generator has not been started                *)
(*         "get"         suspended in `await self.queue.get()`             *)
(*         "yielded"     suspended at `yield value`, the consumer holds it *)
(*         "ended"       the while loop was left, the generator is done    *)
(***************************************************************************)

MaxPush == 3

MaxStarts == 2

CheckingIds == {"a", "b"}

InitStream ==
    /\ queue = <<>>
    /\ running = TRUE
    /\ spc = "notstarted"
    /\ yielded = <<>>
    /\ pushed = <<>>
    /\ pushedAtClear = <<>>
    /\ starts = 0

\* self.queue = asyncio.Queue(0): every start of the generator binds a new,
\* empty queue to self.queue.
new_queue(q) == <<>>

\* `while settings.lnbits_running`: the loop test, made when the generator is
\* started and every time it is resumed after a yield.
loop_test(flag) == IF flag THEN "get" ELSE "ended"

\* The consumer starts the stream, or starts it again (a new generator object;
\* the old one is dropped wherever it stood).
StartStream ==
    /\ starts < MaxStarts
    /\ starts' = starts + 1
    /\ queue' = new_queue(queue)
    /\ spc' = loop_test(running)
    /\ UNCHANGED <<running, yielded, pushed, pushedAtClear>>
    /\ UNCHANGED <<walletVars, notifierVars>>

\* value = await self.queue.get(); yield value. With an empty queue the
\* generator stays suspended: the action is not enabled.
GetAndYield ==
    /\ spc = "get"
    /\ queue # <<>>
    /\ yielded' = Append(yielded, Head(queue))
    /\ queue' = Tail(queue)
    /\ spc' = "yielded"
    /\ UNCHANGED <<running, pushed, pushedAtClear, starts>>
    /\ UNCHANGED <<walletVars, notifierVars>>

\* The consumer asks for the next value: the generator resumes after the yield
\* and makes the loop test.
Resume ==
    /\ spc = "yielded"
    /\ spc' = loop_test(running)
    /\ UNCHANGED <<queue, running, yielded, pushed, pushedAtClear, starts>>
    /\ UNCHANGED <<walletVars, notifierVars>>

\* A producer puts an id into self.queue. The queue is unbounded (maxsize 0),
\* so the put never waits. self.queue exists only once the stream has started.
Push ==
    /\ starts > 0
    /\ Len(pushed) < MaxPush
    /\ \E id \in CheckingIds :
          /\ queue' = Append(queue, id)
          /\ pushed' = Append(pushed, id)
    /\ UNCHANGED <<running, spc, yielded, pushedAtClear, starts>>
    /\ UNCHANGED <<walletVars, notifierVars>>

\* Shutdown: settings.lnbits_running is cleared.
ClearFlag ==
    /\ running
    /\ running' = FALSE
    /\ pushedAtClear' = pushed
    /\ UNCHANGED <<queue, spc, yielded, pushed, starts>>
    /\ UNCHANGED <<walletVars, notifierVars>>

NextStream ==
    \/ StartStream
    \/ GetAndYield
    \/ Resume
    \/ Push
    \/ ClearFlag

(***************************************************************************)
(*                 WEBSOCKET ENDPOINT AND ROOM NOTIFIER                    *)
(* websocket_endpoint runs once per connection, as a task of its own; a    *)
(* task runs without interruption from one await to the next.              *)
(*   pc = "Connecting"  in `await notifier.connect(...)`, line 172         *)
(*        "Joined"      in `await websocket.receive_text()`                *)
(*        "Drifted"     the membership test failed; in the second          *)
(*                      `await notifier.connect(...)`, line 187            *)
(*        "Notifying"   in `await notifier._notify(data, room_name)`       *)
(*        "Closed"      WebSocketDisconnect was caught, remove was called  *)
(*        "Raised"      another exception left the handler                 *)
(***************************************************************************)

MaxFrames == 2

MaxInq == 1

Conns == {"A", "B", "C"}

Rooms == {"order-42", "order-7"}

\* The room_name path parameter of each connection's URL.
room_name(c) == IF c = "C" THEN "order-7" ELSE "order-42"

\* Text frames a client may send: a JSON object, a JSON array, and no JSON.
T_obj == "{\"text\": \"hi\"}"

T_arr == "[\"hi\"]"

T_bad == "hi"

FrameTexts == {T_obj, T_arr, T_bad}

NoFrame == [id |-> 0, text |-> ""]

\* Python values the handler works with.
PyStr(v) == [type |-> "str", val |-> v]

PyDict(v) == [type |-> "dict", val |-> v]

PyList(v) == [type |-> "list", val |-> v]

\* json.loads(data) on the texts above.
json_loads(text) ==
    CASE text = T_obj -> [exc |-> "None", py |-> PyDict([text |-> "hi"])]
      [] text = T_arr -> [exc |-> "None", py |-> PyList(<<"hi">>)]
      [] OTHER -> [exc |-> "JSONDecodeError", py |-> PyStr("")]

\* d["room_name"] = room_name: item assignment with a string key works on a
\* dict and raises TypeError on any other decoded value.
set_room_name(py, room) ==
    IF py.type = "dict"
    THEN [exc |-> "None",
          py |-> PyDict([k \in DOMAIN py.val \cup {"room_name"} |->
                           IF k = "room_name" THEN room ELSE py.val[k]])]
    ELSE [exc |-> "TypeError", py |-> py]

\* Lines 176-177: d = json.loads(data); d["room_name"] = room_name
tagged(text, room) ==
    LET d == json_loads(text) IN
    IF d.exc # "None" THEN d ELSE set_room_name(d.py, room)

----
\* The notifier (lnbits/extensions/diagonalley/notifier.py).

\* connect(connection, room_id): accept, then add to the room's member set.
notifier_connect(ms, c, room) == [ms EXCEPT ![room] = @ \cup {c}]

\* get_members(room_id); a room nobody joined is the empty set here.
notifier_get_members(ms, room) == ms[room]

\* remove(connection, room_id): safe when the connection is absent.
notifier_remove(ms, c, room) == [ms EXCEPT ![room] = @ \ {c}]

\* notify(message, room_id) starts with a snapshot of the room's members.
notify_snapshot(ms, room) == ms[room]

\* A member whose delivery failed is dropped from the room.
notify_drop(ms, t, room) == [ms EXCEPT ![room] = @ \ {t}]

\* What is left of the fan-out after a delivery failed: the other members.
notify_rest(rest, t) == rest \ {t}

----
\* The endpoint (views.py, websocket_endpoint).

\* Line 189: the message handed to notify is `data`, the text as received.
notify_message(text, room) == PyStr(text)

\* A faulty variant of notify_room: one room for every sender.
notify_room_mut(c) == "order-42"

\* Line 189: the room handed to notify.
notify_room(c) == room_name(c)

\* A faulty variant of needs_reconnect: the membership test never fires.
needs_reconnect_mut(ms, c) == FALSE

\* Lines 179-185: `if websocket not in room_members`.
needs_reconnect(ms, c) == c \notin notifier_get_members(ms, room_name(c))

\* A faulty variant of after_notify: the handler is left after one frame.
after_notify_mut(fails) == "Raised"

\* Line 174: `while True` - after notify returns the handler receives again.
after_notify(fails) == "Joined"

\* What a member receives: the payload, and for reference the sender, the frame
\* it came from and the room notify was called with.
Msg(c) == [from |-> c, id |-> data[c].id, frame |-> data[c].text, room |-> notify_room(c),
           payload |-> notify_message(data[c].text, room_name(c))]

InitNotifier ==
    /\ members = [r \in Rooms |-> {}]
    /\ pc = [c \in Conns |-> "Connecting"]
    /\ inq = [c \in Conns |-> <<>>]
    /\ data = [c \in Conns |-> NoFrame]
    /\ snap = [c \in Conns |-> {}]
    /\ todo = [c \in Conns |-> {}]
    /\ failed = [c \in Conns |-> {}]
    /\ inbox = [c \in Conns |-> {}]
    /\ nsent = 0
    /\ rejoined = {}

\* The call of notify (line 189) up to its first await: the snapshot is taken;
\* with nobody in the room notify returns at once.
StartNotify(c, ms) ==
    LET s == notify_snapshot(ms, notify_room(c)) IN
    /\ snap' = [snap EXCEPT ![c] = s]
    /\ todo' = [todo EXCEPT ![c] = s]
    /\ failed' = [failed EXCEPT ![c] = {}]
    /\ pc' = [pc EXCEPT ![c] = IF s = {} THEN after_notify({}) ELSE "Notifying"]

\* The locals of a notify call that is over, once the handler has moved on.
ForgetNotify(c) ==
    /\ snap' = [snap EXCEPT ![c] = {}]
    /\ todo' = [todo EXCEPT ![c] = {}]
    /\ failed' = [failed EXCEPT ![c] = {}]

\* Line 172: await notifier.connect(websocket, room_name)
Connect(c) ==
    /\ pc[c] = "Connecting"
    /\ members' = notifier_connect(members, c, room_name(c))
    /\ pc' = [pc EXCEPT ![c] = "Joined"]
    /\ UNCHANGED <<inq, data, snap, todo, failed, inbox, nsent, rejoined>>
    /\ UNCHANGED <<walletVars, streamVars>>

\* A client sends a text frame; its handler is running.
ClientSend(c) ==
    /\ pc[c] \in {"Joined", "Drifted", "Notifying"}
    /\ nsent < MaxFrames
    /\ Len(inq[c]) < MaxInq
    /\ \E text \in FrameTexts :
          inq' = [inq EXCEPT ![c] = Append(@, [id |-> nsent + 1, text |-> text])]
    /\ nsent' = nsent + 1
    /\ UNCHANGED <<members, pc, data, snap, todo, failed, inbox, rejoined>>
    /\ UNCHANGED <<walletVars, streamVars>>

\* Lines 175-177 on a frame that json.loads or the item assignment rejects:
\* the exception is no WebSocketDisconnect, so it leaves the handler and
\* remove is not called. The frames still unread are gone with the handler.
ReceiveBad(c) ==
    /\ pc[c] = "Joined"
    /\ inq[c] # <<>>
    /\ tagged(Head(inq[c]).text, room_name(c)).exc # "None"
    /\ inq' = [inq EXCEPT ![c] = <<>>]
    /\ data' = [data EXCEPT ![c] = NoFrame]
    /\ pc' = [pc EXCEPT ![c] = "Raised"]
    /\ ForgetNotify(c)
    /\ UNCHANGED <<members, inbox, nsent, rejoined>>
    /\ UNCHANGED <<walletVars, streamVars>>

\* Lines 175-189 on a frame that decodes to a JSON object, the sender being a
\* member of its room: notify is called.
ReceiveAndNotify(c) ==
    /\ pc[c] = "Joined"
    /\ inq[c] # <<>>
    /\ tagged(Head(inq[c]).text, room_name(c)).exc = "None"
    /\ ~needs_reconnect(members, c)
    /\ inq' = [inq EXCEPT ![c] = Tail(@)]
    /\ data' = [data EXCEPT ![c] = Head(inq[c])]
    /\ StartNotify(c, members)
    /\ UNCHANGED <<members, inbox, nsent, rejoined>>
    /\ UNCHANGED <<walletVars, streamVars>>

\* Lines 175-187 on such a frame, the sender being absent from its room: the
\* handler calls connect again and waits in it.
ReceiveAndDrift(c) ==
    /\ pc[c] = "Joined"
    /\ inq[c] # <<>>
    /\ tagged(Head(inq[c]).text, room_name(c)).exc = "None"
    /\ needs_reconnect(members, c)
    /\ inq' = [inq EXCEPT ![c] = Tail(@)]
    /\ data' = [data EXCEPT ![c] = Head(inq[c])]
    /\ pc' = [pc EXCEPT ![c] = "Drifted"]
    /\ ForgetNotify(c)
    /\ UNCHANGED <<members, inbox, nsent, rejoined>>
    /\ UNCHANGED <<walletVars, streamVars>>

\* Lines 187-189: connect returns, the sender is a member again, notify is called.
Reconnect(c) ==
    /\ pc[c] = "Drifted"
    /\ members' = notifier_connect(members, c, room_name(c))
    /\ rejoined' = rejoined \cup {c}
    /\ StartNotify(c, members')
    /\ UNCHANGED <<inq, data, inbox, nsent>>
    /\ UNCHANGED <<walletVars, streamVars>>

\* Whether a send to t can succeed: not once t's handler has ended, for the
\* server has closed the socket then. A send that can succeed may still fail
\* (the peer is gone, the write times out).
can_receive(t) == pc[t] \notin {"Closed", "Raised"}

\* One send of the fan-out, to snapshot member t. A failure drops t from the
\* room and the fan-out goes on. After the last send notify returns to the
\* handler.
Deliver(c, t) ==
    /\ pc[c] = "Notifying"
    /\ t \in todo[c]
    /\ \E ok \in BOOLEAN :
          /\ ok => can_receive(t)
          /\ LET rest == IF ok THEN todo[c] \ {t} ELSE notify_rest(todo[c], t)
                 fails == IF ok THEN failed[c] ELSE failed[c] \cup {t}
             IN
             /\ inbox' = IF ok THEN [inbox EXCEPT ![t] = @ \cup {Msg(c)}] ELSE inbox
             /\ members' = IF ok THEN members ELSE notify_drop(members, t, notify_room(c))
             /\ todo' = [todo EXCEPT ![c] = rest]
             /\ failed' = [failed EXCEPT ![c] = fails]
             /\ pc' = [pc EXCEPT ![c] = IF rest = {} THEN after_notify(fails) ELSE "Notifying"]
    /\ UNCHANGED <<inq, data, snap, nsent, rejoined>>
    /\ UNCHANGED <<walletVars, streamVars>>

\* Lines 191-192: the client has closed the connection; receive_text raises
\* WebSocketDisconnect once every frame the client sent was received, and
\* remove is called.
Disconnect(c) ==
    /\ pc[c] = "Joined"
    /\ inq[c] = <<>>
    /\ members' = notifier_remove(members, c, room_name(c))
    /\ pc' = [pc EXCEPT ![c] = "Closed"]
    /\ data' = [data EXCEPT ![c] = NoFrame]
    /\ ForgetNotify(c)
    /\ UNCHANGED <<inq, inbox, nsent, rejoined>>
    /\ UNCHANGED <<walletVars, streamVars>>

\* The steps a handler takes by itself once it can run.
HandlerStep(c) ==
    \/ Connect(c)
    \/ ReceiveBad(c)
    \/ ReceiveAndNotify(c)
    \/ ReceiveAndDrift(c)
    \/ Reconnect(c)
    \/ \E t \in Conns : Deliver(c, t)

NextNotifier ==
    \/ \E c \in Conns : HandlerStep(c)
    \/ \E c \in Conns : Disconnect(c)
    \/ \E c \in Conns : ClientSend(c)

(***************************************************************************)
(*                          SPECIFICATIONS                                 *)
(***************************************************************************)

Init == InitWallet /\ InitStream /\ InitNotifier

SpecWallet == Init /\ [][NextWallet]_vars

SpecStream == Init /\ [][NextStream]_vars

SpecNotifier == Init /\ [][NextNotifier]_vars

\* The event loop runs every task that can run: a handler that can take a step
\* eventually takes one. When a client closes its connection is its own affair.
FairSpecNotifier == SpecNotifier /\ \A c \in Conns : WF_vars(HandlerStep(c))

(***************************************************************************)
(*                     CLAIMS: WALLET ADAPTER                              *)
(***************************************************************************)

\* The provider answered the status request with a success code and a JSON
\* object that carries a state.
Answered(r) == r.net /\ r.code < 400 /\ r.json /\ HasKey(r.obj, "state")

\* C1: get_invoice_status never raises; it returns paid=True exactly when the
\* provider reports state PAID, paid=False exactly when it reports CANCELLED,
\* and pending in every other case (UNPAID, PENDING, an unknown state, an
\* error response, a transport failure, a body that cannot be decoded).
C1_InvoiceStatusTriState ==
    call.op = "get_invoice_status" =>
        /\ call.result.tag = "return"
        /\ call.result.type = "PaymentStatus"
        /\ call.result.paid \in {"True", "False", "None"}
        /\ (call.result.paid = "True") <=> (Answered(call.r) /\ call.r.obj.state = "PAID")
        /\ (call.result.paid = "False") <=> (Answered(call.r) /\ call.r.obj.state = "CANCELLED")

\* C1 witness: the provider reported a state outside the vocabulary and the
\* call returned pending.
C1_Witness ==
    /\ call.op = "get_invoice_status"
    /\ Answered(call.r)
    /\ call.r.obj.state = "EXPIRED"
    /\ call.result = PaymentPendingStatus

\* C2: get_payment_status returns paid=True when the provider answers with
\* state COMPLETED, paid=False with state FAILED, and pending otherwise.
C2_PaymentStatusTriState ==
    call.op = "get_payment_status" =>
        /\ call.result.tag = "return"
        /\ call.result.type = "PaymentStatus"
        /\ (call.result.paid = "True") <=> (Answered(call.r) /\ call.r.obj.state = "COMPLETED")
        /\ (call.result.paid = "False") <=> (Answered(call.r) /\ call.r.obj.state = "FAILED")

\* C3: no adapter operation lets an exception reach its caller; every failure
\* comes back as a returned value that carries an error message.
C3_NoOperationRaises ==
    call.op # "none" =>
        /\ call.result.tag = "return"
        /\ (call.result.type = "InvoiceResponse" /\ call.result.ok = "False")
              => call.result.error_message # "None"

(***************************************************************************)
(*                    CLAIMS: PAID-INVOICE STREAM                          *)
(***************************************************************************)

IsPrefix(s, t) == Len(s) <= Len(t) /\ \A i \in 1..Len(s) : s[i] = t[i]

\* C7: the ids pushed into the queue are yielded exactly once and in push
\* order, none skipped, also across a restart of the stream; and the stream
\* does not end while the running flag is set.
C7_YieldedInPushOrder ==
    /\ IsPrefix(yielded, pushed)
    /\ spc = "ended" => ~running

\* C10: when the stream has ended, every id that was pushed before the running
\* flag was cleared has been yielded (stated for a stream that was started
\* once, so that no restart is involved).
C10_NothingLostOnShutdown ==
    (spc = "ended" /\ starts = 1) => IsPrefix(pushedAtClear, yielded)

(***************************************************************************)
(*               CLAIMS: WEBSOCKET ENDPOINT AND NOTIFIER                   *)
(***************************************************************************)

FrameIds == 1..MaxFrames

\* Connection c2 has received frame f of sender c1.
Got(c2, c1, f) == \E m \in inbox[c2] : m.from = c1 /\ m.id = f

\* The endpoint holds frame f of c1 and c2 is a member it is still to reach:
\* a member of the room while the sender waits in connect, a member of the
\* snapshot not sent to yet while notify runs.
Owed(c1, c2, f) ==
    /\ data[c1].id = f
    /\ \/ pc[c1] = "Drifted" /\ c2 \in members[room_name(c1)]
       \/ pc[c1] = "Notifying" /\ c2 \in todo[c1]

\* Nothing a connection has received was sent in another room.
RoomIsolation == \A c \in Conns : \A m \in inbox[c] : room_name(m.from) = room_name(c)

\* The endpoint holds a frame of c1 that it still owes to some member.
HasDebt(c1) == \E c2 \in Conns, f \in FrameIds : Owed(c1, c2, f)

C5_DeliveredPayloadTagged ==
    \A c \in Conns : \A m \in inbox[c] :
        /\ m.payload.type = "dict"
        /\ m.payload = tagged(m.frame, room_name(m.from)).py

\* C6: whenever notify runs for a sender, the sender is in the member snapshot
\* notify works on; a handler that found itself dropped goes on to notify and
\* back to receiving, and does not end.
C6_SelfHealing ==
    /\ [](\A c \in Conns : pc[c] = "Notifying" => c \in snap[c])
    /\ [][\A c \in Conns : pc[c] = "Drifted" => pc'[c] \in {"Drifted", "Notifying"}]_vars
    /\ \A c \in Conns : (pc[c] = "Drifted") ~> (pc[c] = "Joined")

\* C6 witness: a handler that re-ran connect is forwarding its frame, itself
\* among the recipients.
C6_Witness ==
    \E c \in rejoined : pc[c] = "Notifying" /\ c \in snap[c]

C9_EndedNotMember ==
    \A c \in Conns : pc[c] \in {"Closed", "Raised"} => \A r \in Rooms : c \notin members[r]

====
